---- MODULE Spec2Model ----
(***************************************************************************)
(* Model of img-shrink: src/services/shrink-image.service.ts, whose text   *)
(* is carried in src/tests/shrink-image.service.test.ts lines 563-924.     *)
(*                                                                         *)
(* JavaScript numbers are IEEE-754 binary64.  The resize arithmetic        *)
(* divides and multiplies by ratios that are not exactly representable,    *)
(* and Math.round then turns a last-bit error into a whole pixel, so the   *)
(* model carries binary64 values exactly: a finite number is               *)
(*     s * (hi * 2^27 + lo) * 2^e                                          *)
(* with a 53-bit significand split in two limbs (TLC integers are 32 bit). *)
(***************************************************************************)
EXTENDS Integers, Sequences, FiniteSets, TLC

\* ------------------------------------------------------------------------
\* binary64 arithmetic (ECMAScript Number: operators /, *, -, <, Math.round)
\* ------------------------------------------------------------------------

\* F at the value of e, which is computed once
Let(e, F(_)) == F(e)

LimbBase == 134217728
HalfLimb == 67108864
MinHi == 33554432

P2 ==
  <<1, 2, 4, 8, 16, 32, 64, 128, 256, 512, 1024, 2048, 4096, 8192, 16384,
    32768, 65536, 131072, 262144, 524288, 1048576, 2097152, 4194304,
    8388608, 16777216, 33554432, 67108864, 134217728, 268435456,
    536870912, 1073741824>>

\* 2^n for 0 <= n <= 30
Pow2(n) == P2[n + 1]

Dbl(s, hi, lo, e) == [k |-> "num", s |-> s, hi |-> hi, lo |-> lo, e |-> e]

Zero == Dbl(0, 0, 0, 0)

NaN == [k |-> "nan", s |-> 0, hi |-> 0, lo |-> 0, e |-> 0]

Inf(s) == [k |-> "inf", s |-> s, hi |-> 0, lo |-> 0, e |-> 0]

Undefined == [k |-> "undefined", s |-> 0, hi |-> 0, lo |-> 0, e |-> 0]

Abs(n) == IF n < 0 THEN 0 - n ELSE n

Sgn(n) == IF n < 0 THEN 0 - 1 ELSE IF n = 0 THEN 0 ELSE 1

\* number of significant bits of a limb v, 0 <= v < 2^27
BitLen(v) == Cardinality({i \in 1..27 : v >= P2[i]})

\* number of trailing zero bits of a limb v, 0 < v < 2^27
TrailZ(v) == Cardinality({i \in 1..26 : v % P2[i + 1] = 0})

\* the Number whose value is the integer n, |n| < 2^26
FInt(n) ==
  IF n = 0 THEN Zero
  ELSE LET j == 26 - BitLen(Abs(n))
       IN  Dbl(Sgn(n), Abs(n) * Pow2(j), 0, 0 - 27 - j)

\* two-limb naturals <<hi, lo>> below 2^54
PGeq(a, b) == a[1] > b[1] \/ (a[1] = b[1] /\ a[2] >= b[2])

PSub(a, b) ==
  IF a[2] >= b[2] THEN <<a[1] - b[1], a[2] - b[2]>>
  ELSE <<a[1] - b[1] - 1, a[2] + LimbBase - b[2]>>

PDbl(a, bit) ==
  LET l == 2 * a[2] + bit
  IN  <<2 * a[1] + (l \div LimbBase), l % LimbBase>>

PInc(a) ==
  IF a[2] + 1 = LimbBase THEN <<a[1] + 1, 0>> ELSE <<a[1], a[2] + 1>>

\* four-limb naturals <<a0, a1, a2, a3>>, least significant first
QZero == <<0, 0, 0, 0>>

QLimb(a, i) == IF i >= 1 /\ i <= 4 THEN a[i] ELSE 0

\* a * 2^n, for a result below 2^108
QShl(a, n) ==
  LET w == n \div 27
      r == n % 27
      lo(i) == QLimb(a, i - w - 1) \div Pow2(27 - r)
      up(i) == (QLimb(a, i - w) % Pow2(27 - r)) * Pow2(r)
  IN  <<up(1) + lo(1), up(2) + lo(2), up(3) + lo(3), up(4) + lo(4)>>

\* floor(a / 2^n)
QShr(a, n) ==
  LET w == n \div 27
      r == n % 27
      lo(i) == QLimb(a, i + w) \div Pow2(r)
      up(i) == (QLimb(a, i + w + 1) % Pow2(r)) * Pow2(27 - r)
  IN  <<up(1) + lo(1), up(2) + lo(2), up(3) + lo(3), up(4) + lo(4)>>

\* bit n of a (bit 0 is the least significant)
QBit(a, n) == (QLimb(a, (n \div 27) + 1) \div Pow2(n % 27)) % 2

\* the n low bits of a are all zero
QLowZero(a, n) ==
  /\ \A i \in 1..4 : i <= n \div 27 => a[i] = 0
  /\ QLimb(a, (n \div 27) + 1) % Pow2(n % 27) = 0

\* number of significant bits of a
QBitLen(a) ==
  IF a[4] > 0 THEN 81 + BitLen(a[4])
  ELSE IF a[3] > 0 THEN 54 + BitLen(a[3])
  ELSE IF a[2] > 0 THEN 27 + BitLen(a[2])
  ELSE BitLen(a[1])

QGeq(a, b) ==
  \/ a[4] > b[4]
  \/ a[4] = b[4] /\ a[3] > b[3]
  \/ a[4] = b[4] /\ a[3] = b[3] /\ a[2] > b[2]
  \/ a[4] = b[4] /\ a[3] = b[3] /\ a[2] = b[2] /\ a[1] >= b[1]

QAdd(a, b) ==
  LET l0 == a[1] + b[1]
      l1 == a[2] + b[2] + (l0 \div LimbBase)
      l2 == a[3] + b[3] + (l1 \div LimbBase)
      l3 == a[4] + b[4] + (l2 \div LimbBase)
  IN  <<l0 % LimbBase, l1 % LimbBase, l2 % LimbBase, l3>>

\* a - b for a >= b
QSub(a, b) ==
  LET l0 == a[1] - b[1]
      b0 == IF l0 < 0 THEN 1 ELSE 0
      l1 == a[2] - b[2] - b0
      b1 == IF l1 < 0 THEN 1 ELSE 0
      l2 == a[3] - b[3] - b1
      b2 == IF l2 < 0 THEN 1 ELSE 0
  IN  <<l0 + b0 * LimbBase, l1 + b1 * LimbBase, l2 + b2 * LimbBase,
        a[4] - b[4] - b2>>

\* 8 * a + c * m for a digit c < 8 and a two-limb m
QMul8Add(a, c, m) ==
  LET l0 == 8 * a[1] + c * m[2]
      l1 == 8 * a[2] + c * m[1] + (l0 \div LimbBase)
      l2 == 8 * a[3] + (l1 \div LimbBase)
      l3 == 8 * a[4] + (l2 \div LimbBase)
  IN  <<l0 % LimbBase, l1 % LimbBase, l2 % LimbBase, l3>>

\* round-to-nearest, ties-to-even of a 53-bit significand m with the first
\* discarded bit g and the OR of the others st
RoundEven(s, m, e, g, st) ==
  IF g /\ (st \/ m[2] % 2 = 1)
  THEN LET u == PInc(m)
       IN  IF u[1] = HalfLimb THEN Dbl(s, MinHi, 0, e + 1)
           ELSE Dbl(s, u[1], u[2], e)
  ELSE Dbl(s, m[1], m[2], e)

\* RoundBig for a of len > 53 significant bits: the low len - 53 are rounded
RoundDown(s, a, e, d) ==
  Let(QShr(a, d), LAMBDA m :
    RoundEven(s, <<m[2], m[1]>>, e + d,
              QBit(a, d - 1) = 1, ~QLowZero(a, d - 1)))

\* RoundBig for a of len <= 53 significant bits: exact
RoundUp(s, a, e, d) ==
  Let(QShl(a, 0 - d), LAMBDA m : Dbl(s, m[2], m[1], e + d))

\* the Number nearest to s * a * 2^e for a four-limb natural a
RoundBig(s, a, e) ==
  Let(QBitLen(a), LAMBDA len :
    IF len = 0 THEN Zero
    ELSE IF len > 53 THEN RoundDown(s, a, e, len - 53)
    ELSE RoundUp(s, a, e, len - 53))

\* the quotient q of a division that has come out even after some steps,
\* followed by the n zero bits of the steps left
DivEven(q, n) ==
  Let(QShl(<<q[2], q[1], 0, 0>>, n), LAMBDA z : <<z[2], z[1]>>)

\* one step of restoring division by d: the doubled remainder r2
DivStep(r2, q, d) ==
  IF PGeq(r2, d) THEN <<PSub(r2, d), PDbl(q, 1)>> ELSE <<r2, PDbl(q, 0)>>

\* n steps of restoring division by d from remainder r and quotient q
\* (one quotient bit per step; the run is split in halves)
RECURSIVE DivSteps(_, _, _, _)
DivSteps(r, q, d, n) ==
  IF n = 1 THEN DivStep(PDbl(r, 0), q, d)
  ELSE Let(DivSteps(r, q, d, n \div 2), LAMBDA mid :
         IF mid[1] = <<0, 0>>
         THEN <<mid[1], DivEven(mid[2], n - (n \div 2))>>
         ELSE DivSteps(mid[1], mid[2], d, n - (n \div 2)))

\* the quotient significand rq[2] of mx / my rounded on the remainder rq[1]
DivRound(s, rq, my, e) ==
  Let(PDbl(rq[1], 0), LAMBDA r2 :
    RoundEven(s, rq[2], e, PGeq(r2, my), r2 # <<0, 0>> /\ r2 # my))

\* mx / my for significands mx, my: 53 quotient bits, then rounding
DivSig(s, mx, my, e) ==
  IF PGeq(mx, my)
  THEN DivRound(s, DivSteps(PSub(mx, my), <<0, 1>>, my, 52), my, e - 52)
  ELSE DivRound(s, DivSteps(mx, <<0, 0>>, my, 53), my, e - 53)

\* x / y
FDiv(x, y) ==
  IF x.k = "nan" \/ y.k = "nan" THEN NaN
  ELSE IF x.k = "inf" THEN (IF y.k = "inf" THEN NaN
                            ELSE Inf(IF y.s < 0 THEN 0 - x.s ELSE x.s))
  ELSE IF y.k = "inf" THEN Zero
  ELSE IF y.s = 0 THEN (IF x.s = 0 THEN NaN ELSE Inf(x.s))
  ELSE IF x.s = 0 THEN Zero
  ELSE DivSig(x.s * y.s, <<x.hi, x.lo>>, <<y.hi, y.lo>>, x.e - y.e)

\* number of trailing zero bits of a two-limb natural m > 0
PTrailZ(m) == IF m[2] # 0 THEN TrailZ(m[2]) ELSE 27 + TrailZ(m[1])

\* y * m as a four-limb natural, three bits of y at a time from the top
RECURSIVE MulAcc(_, _)
MulAcc(y, m) ==
  IF y = QZero THEN QZero
  ELSE QMul8Add(MulAcc(QShr(y, 3), m), y[1] % 8, m)

\* mult * cand for a multiplier with z trailing zero bits
MulSig(s, mult, cand, z, e) ==
  RoundBig(s, MulAcc(QShr(<<mult.lo, mult.hi, 0, 0>>, z),
                     <<cand.hi, cand.lo>>), e + z)

\* x * y; the operand with the shorter significand is the multiplier
FMul(x, y) ==
  IF x.k = "nan" \/ y.k = "nan" THEN NaN
  ELSE IF x.k = "inf" \/ y.k = "inf"
       THEN (IF x.s * y.s = 0 THEN NaN ELSE Inf(x.s * y.s))
  ELSE IF x.s = 0 \/ y.s = 0 THEN Zero
  ELSE Let(PTrailZ(<<x.hi, x.lo>>), LAMBDA zx :
       Let(PTrailZ(<<y.hi, y.lo>>), LAMBDA zy :
         IF zy >= zx THEN MulSig(x.s * y.s, y, x, zy, x.e + y.e)
         ELSE MulSig(x.s * y.s, x, y, zx, x.e + y.e)))

FNeg(v) == [k |-> v.k, s |-> 0 - v.s, hi |-> v.hi, lo |-> v.lo, e |-> v.e]

\* P + Q or P - Q, as sign and magnitude, for magnitudes P, Q of signs ps, qs
AddMag(ps, P, qs, Q, e) ==
  IF ps = qs THEN RoundBig(ps, QAdd(P, Q), e)
  ELSE IF QGeq(P, Q) THEN RoundBig(ps, QSub(P, Q), e)
  ELSE RoundBig(qs, QSub(Q, P), e)

\* p + q for finite nonzero p, q with p.e >= q.e
AddSig(p, q) ==
  IF p.e - q.e > 54 THEN p
  ELSE AddMag(p.s, QShl(<<p.lo, p.hi, 0, 0>>, p.e - q.e),
              q.s, <<q.lo, q.hi, 0, 0>>, q.e)

\* x + y
FAdd(x, y) ==
  IF x.k = "nan" \/ y.k = "nan" THEN NaN
  ELSE IF x.k = "inf"
       THEN (IF y.k = "inf" /\ y.s # x.s THEN NaN ELSE x)
  ELSE IF y.k = "inf" THEN y
  ELSE IF y.s = 0 THEN x
  ELSE IF x.s = 0 THEN y
  ELSE IF x.e >= y.e THEN AddSig(x, y) ELSE AddSig(y, x)

\* x - y
FSub(a, b) == FAdd(a, FNeg(b))

\* x < y
FLt(x, y) ==
  /\ x.k # "nan" /\ y.k # "nan"
  /\ IF x.k = "inf" THEN x.s < 0 /\ ~(y.k = "inf" /\ y.s < 0)
     ELSE IF y.k = "inf" THEN y.s > 0
     ELSE IF x.s # y.s THEN x.s < y.s
     ELSE IF x.s = 0 THEN FALSE
     ELSE LET less == \/ x.e < y.e
                      \/ x.e = y.e /\ ~PGeq(<<x.hi, x.lo>>, <<y.hi, y.lo>>)
              more == \/ x.e > y.e
                      \/ x.e = y.e /\ ~PGeq(<<y.hi, y.lo>>, <<x.hi, x.lo>>)
          IN  IF x.s > 0 THEN less ELSE more

\* x > y
FGt(x, y) == FLt(y, x)

\* Number.isFinite(x)
IsFinite(x) == x.k = "num"

\* Math.min(x, y) on finite Numbers
MathMin(x, y) == IF FLt(y, x) THEN y ELSE x

\* Math.max(a, b) on integers
MathMax(a, b) == IF a >= b THEN a ELSE b

\* the low n bits (n <= 54) of a two-limb natural are all zero
LowZero(m, n) ==
  IF n <= 27 THEN m[2] % Pow2(n) = 0
  ELSE m[2] = 0 /\ m[1] % Pow2(n - 27) = 0

\* floor(m / 2^n) for a two-limb natural, 22 < n <= 53, as an integer
ShrInt(m, n) ==
  IF n >= 27 THEN m[1] \div Pow2(n - 27)
  ELSE m[1] * Pow2(27 - n) + (m[2] \div Pow2(n))

\* Math.round(x) as an integer: floor(x + 0.5), for |x| < 2^30
MathRound(x) ==
  IF x.s = 0 THEN 0
  ELSE LET m == <<x.hi, x.lo>>
           n == 0 - x.e
       IN  IF n >= 54 THEN 0
           ELSE LET ip == ShrInt(m, n)
                    half == ShrInt(m, n - 1) % 2 = 1
                    below == ~LowZero(m, n - 1)
                IN  IF x.s > 0 THEN (IF half THEN ip + 1 ELSE ip)
                    ELSE IF half /\ below THEN 0 - (ip + 1)
                    ELSE 0 - ip

\* the Number written n/d as a decimal literal (correctly rounded)
Num(n, d) == FDiv(FInt(n), FInt(d))

\* ------------------------------------------------------------------------
\* strings, thrown errors
\* ------------------------------------------------------------------------

\* a string is the sequence of its characters; undefined is not a string
UndefStr == <<"undefined">>

UpperChars ==
  <<"A", "B", "C", "D", "E", "F", "G", "H", "I", "J", "K", "L", "M",
    "N", "O", "P", "Q", "R", "S", "T", "U", "V", "W", "X", "Y", "Z">>

LowerChars ==
  <<"a", "b", "c", "d", "e", "f", "g", "h", "i", "j", "k", "l", "m",
    "n", "o", "p", "q", "r", "s", "t", "u", "v", "w", "x", "y", "z">>

\* String.prototype.toLowerCase
toLowerCase(str) ==
  [i \in 1..Len(str) |->
     IF \E j \in 1..26 : UpperChars[j] = str[i]
     THEN LowerChars[CHOOSE j \in 1..26 : UpperChars[j] = str[i]]
     ELSE str[i]]

\* Array.prototype.indexOf (0-based, -1 when absent)
indexOf(arr, x) ==
  IF \E i \in 1..Len(arr) : arr[i] = x
  THEN (CHOOSE i \in 1..Len(arr) :
          arr[i] = x /\ \A j \in 1..(i - 1) : arr[j] # x) - 1
  ELSE 0 - 1

ImageJpeg == <<"i", "m", "a", "g", "e", "/", "j", "p", "e", "g">>

ImagePng == <<"i", "m", "a", "g", "e", "/", "p", "n", "g">>

ImageWebp == <<"i", "m", "a", "g", "e", "/", "w", "e", "b", "p">>

\* a normal return of value v, and a throw of new Error(msg)
Ok(v) == [ok |-> TRUE, val |-> v, message |-> <<>>]

Throw(msg) == [ok |-> FALSE, val |-> <<>>, message |-> msg]

\* ------------------------------------------------------------------------
\* shrink-image.service.ts
\* ------------------------------------------------------------------------

DEFAULT_QUALITY == Num(92, 100)

SUPPORTED_FORMATS == <<ImageJpeg, ImagePng, ImageWebp>>

\* a faulty normalizeDimension that truncates where the code rounds
normalizeDimensionTruncates(value, name) ==
  IF ~IsFinite(value) \/ ~FGt(value, Zero)
  THEN Throw(<<name, " must be a positive number.">>)
  ELSE Let(MathRound(FSub(value, Num(1, 2))), LAMBDA normalized :
         IF normalized <= 0
         THEN Throw(<<name, " must be a positive number.">>)
         ELSE Ok(normalized))

\* a faulty normalizeDimension without the check of the rounded value
normalizeDimensionUnchecked(value, name) ==
  IF ~IsFinite(value) \/ ~FGt(value, Zero)
  THEN Throw(<<name, " must be a positive number.">>)
  ELSE Ok(MathRound(value))

normalizeDimension(value, name) ==
  IF ~IsFinite(value) \/ ~FGt(value, Zero)
  THEN Throw(<<name, " must be a positive number.">>)
  ELSE Let(MathRound(value), LAMBDA normalized :
         IF normalized <= 0
         THEN Throw(<<name, " must be a positive number.">>)
         ELSE Ok(normalized))

\* a faulty resolveGivenSize that multiplies by the ratio where the code
\* divides, and divides where it multiplies
resolveGivenSizeInverted(width, height, srcWidth, srcHeight) ==
  Let(IF width # Undefined THEN normalizeDimension(width, "width")
      ELSE Ok(Undefined), LAMBDA normalizedWidth :
  IF ~normalizedWidth.ok THEN normalizedWidth
  ELSE
  Let(IF height # Undefined THEN normalizeDimension(height, "height")
      ELSE Ok(Undefined), LAMBDA normalizedHeight :
  IF ~normalizedHeight.ok THEN normalizedHeight
  ELSE IF width # Undefined /\ height # Undefined
       THEN Ok([width |-> normalizedWidth.val,
                height |-> normalizedHeight.val])
  ELSE
  Let(FDiv(FInt(srcWidth), FInt(srcHeight)), LAMBDA ratio :
  IF width # Undefined
  THEN Ok([width |-> normalizedWidth.val,
           height |-> MathMax(1, MathRound(
               FMul(FInt(normalizedWidth.val), ratio)))])
  ELSE Ok([width |-> MathMax(1, MathRound(
               FDiv(FInt(normalizedHeight.val), ratio))),
           height |-> normalizedHeight.val]))))

\* resolveTargetSize once one of width and height is known to be given
resolveGivenSize(width, height, srcWidth, srcHeight) ==
  Let(IF width # Undefined THEN normalizeDimension(width, "width")
      ELSE Ok(Undefined), LAMBDA normalizedWidth :
  IF ~normalizedWidth.ok THEN normalizedWidth
  ELSE
  Let(IF height # Undefined THEN normalizeDimension(height, "height")
      ELSE Ok(Undefined), LAMBDA normalizedHeight :
  IF ~normalizedHeight.ok THEN normalizedHeight
  ELSE IF width # Undefined /\ height # Undefined
       THEN Ok([width |-> normalizedWidth.val,
                height |-> normalizedHeight.val])
  ELSE
  Let(FDiv(FInt(srcWidth), FInt(srcHeight)), LAMBDA ratio :
  IF width # Undefined
  THEN Ok([width |-> normalizedWidth.val,
           height |-> MathMax(1, MathRound(
               FDiv(FInt(normalizedWidth.val), ratio)))])
  ELSE Ok([width |-> MathMax(1, MathRound(
               FMul(FInt(normalizedHeight.val), ratio))),
           height |-> normalizedHeight.val]))))

\* a faulty resolveTargetSize that falls back to the source size
resolveTargetSizeDefaults(width, height, srcWidth, srcHeight) ==
  IF width = Undefined /\ height = Undefined
  THEN Ok([width |-> srcWidth, height |-> srcHeight])
  ELSE resolveGivenSize(width, height, srcWidth, srcHeight)

resolveTargetSize(width, height, srcWidth, srcHeight) ==
  IF width = Undefined /\ height = Undefined
  THEN Throw(<<"width or height must be provided.">>)
  ELSE resolveGivenSize(width, height, srcWidth, srcHeight)

\* a faulty normalizeQuality that takes 1 to be out of range
normalizeQualityExclusive(quality) ==
  IF quality = Undefined THEN Ok(DEFAULT_QUALITY)
  ELSE IF ~IsFinite(quality) \/ FLt(quality, Zero)
          \/ ~FLt(quality, FInt(1))
       THEN Throw(<<"quality must be between 0 and 1.">>)
  ELSE Ok(quality)

normalizeQuality(quality) ==
  IF quality = Undefined THEN Ok(DEFAULT_QUALITY)
  ELSE IF ~IsFinite(quality) \/ FLt(quality, Zero) \/ FGt(quality, FInt(1))
       THEN Throw(<<"quality must be between 0 and 1.">>)
  ELSE Ok(quality)

\* a faulty resolveOutputType that prefers the input type to the explicit one
resolveOutputTypeInputFirst(explicit, inputType) ==
  IF indexOf(SUPPORTED_FORMATS, toLowerCase(inputType)) # 0 - 1
  THEN toLowerCase(inputType)
  ELSE IF explicit # UndefStr /\ explicit # <<>>
          /\ indexOf(SUPPORTED_FORMATS, explicit) # 0 - 1
  THEN explicit
  ELSE ImageJpeg

resolveOutputType(explicit, inputType) ==
  IF explicit # UndefStr /\ explicit # <<>>
     /\ indexOf(SUPPORTED_FORMATS, explicit) # 0 - 1
  THEN explicit
  ELSE LET normalizedInput == toLowerCase(inputType)
       IN  IF indexOf(SUPPORTED_FORMATS, normalizedInput) # 0 - 1
           THEN normalizedInput
           ELSE ImageJpeg

\* a faulty getCoverSourceRect whose offsets are not halved
getCoverSourceRectUncentred(srcWidth, srcHeight, targetWidth, targetHeight) ==
  Let(FDiv(FInt(srcWidth), FInt(srcHeight)), LAMBDA srcRatio :
  Let(FDiv(FInt(targetWidth), FInt(targetHeight)), LAMBDA targetRatio :
    IF FGt(srcRatio, targetRatio)
    THEN Let(FMul(FInt(srcHeight), targetRatio), LAMBDA sWidth :
           [sx |-> FSub(FInt(srcWidth), sWidth),
            sy |-> Zero, sWidth |-> sWidth, sHeight |-> FInt(srcHeight)])
    ELSE Let(FDiv(FInt(srcWidth), targetRatio), LAMBDA sHeight :
           [sx |-> Zero,
            sy |-> FSub(FInt(srcHeight), sHeight),
            sWidth |-> FInt(srcWidth), sHeight |-> sHeight])))

getCoverSourceRect(srcWidth, srcHeight, targetWidth, targetHeight) ==
  Let(FDiv(FInt(srcWidth), FInt(srcHeight)), LAMBDA srcRatio :
  Let(FDiv(FInt(targetWidth), FInt(targetHeight)), LAMBDA targetRatio :
    IF FGt(srcRatio, targetRatio)
    THEN Let(FMul(FInt(srcHeight), targetRatio), LAMBDA sWidth :
           [sx |-> FDiv(FSub(FInt(srcWidth), sWidth), FInt(2)),
            sy |-> Zero, sWidth |-> sWidth, sHeight |-> FInt(srcHeight)])
    ELSE Let(FDiv(FInt(srcWidth), targetRatio), LAMBDA sHeight :
           [sx |-> Zero,
            sy |-> FDiv(FSub(FInt(srcHeight), sHeight), FInt(2)),
            sWidth |-> FInt(srcWidth), sHeight |-> sHeight])))

\* the image handle: an ImageBitmap has close(), an HTMLImageElement has
\* naturalWidth/naturalHeight and no close()
getImageSize(img) ==
  IF img.kind = "HTMLImageElement"
  THEN [width |-> img.naturalWidth, height |-> img.naturalHeight]
  ELSE [width |-> img.width, height |-> img.height]

\* a faulty cleanupImage that never releases the image
cleanupImageForgets(img) == <<>>

\* the host calls cleanupImage makes
cleanupImage(img) == IF img.hasClose THEN <<[op |-> "close"]>> ELSE <<>>

\* ------------------------------------------------------------------------
\* inputs
\* ------------------------------------------------------------------------

MaxDim == 3
MaxReq == 3
MaxSrc == 3
MaxCover == 3

ImageGif == <<"i", "m", "a", "g", "e", "/", "g", "i", "f">>

UpperPng == <<"I", "M", "A", "G", "E", "/", "P", "N", "G">>

MixedJpeg == <<"I", "m", "a", "g", "e", "/", "J", "p", "e", "g">>

\* values passed as a width or height
DimValues ==
  {Num(n, 4) : n \in (0 - 4)..(4 * MaxDim)}
    \cup {NaN, Inf(1), Inf(0 - 1), Num(104, 10), Num(106, 10), Num(49, 100)}

ReqValues ==
  {Undefined, NaN, Num(1, 4), Num(1, 2), Num(5, 2), Num(1002, 10),
   Num(507, 10)}
    \cup {FInt(n) : n \in (1..MaxReq) \cup {9, 11, 50, 100}}

SrcSizes ==
  ((1..MaxSrc) \X (1..MaxSrc))
    \cup {<<18, 7>>, <<15, 22>>, <<11, 22>>, <<200, 100>>, <<100, 100>>,
          <<11, 15>>}

QualityValues ==
  {Undefined, NaN, Inf(1), Num(92, 100), Num(1, 10)}
    \cup {Num(n, 8) : n \in (0 - 2)..10}

FormatValues ==
  {UndefStr, <<>>, ImageJpeg, ImagePng, ImageWebp, ImageGif, UpperPng}

TypeValues ==
  {<<>>, ImageJpeg, ImagePng, ImageWebp, ImageGif, UpperPng, MixedJpeg}

CoverSizes ==
  ((1..MaxCover) \X (1..MaxCover) \X (1..MaxCover) \X (1..MaxCover))
    \cup {<<200, 100, 100, 100>>, <<100, 200, 200, 100>>,
          <<22, 11, 15, 8>>, <<11, 15, 11, 15>>, <<21, 15, 7, 5>>}

\* width/height pairs, and the other options, given to shrinkImage
ShrinkDims ==
  {<<Undefined, Undefined>>, <<FInt(100), FInt(100)>>,
   <<FInt(200), FInt(200)>>, <<FInt(8), FInt(15)>>,
   <<FInt(9), Undefined>>, <<Undefined, FInt(11)>>,
   <<NaN, FInt(1)>>, <<FInt(1), Undefined>>, <<FInt(2), FInt(2)>>,
   <<FInt(3), FInt(1)>>, <<Undefined, FInt(2)>>,
   <<FInt(11), FInt(15)>>}

ShrinkOptions ==
  {[width |-> d[1], height |-> d[2], fit |-> f, format |-> fmt,
    quality |-> q, background |-> bg] :
     d \in ShrinkDims, f \in {"undefined", "contain"},
     fmt \in {UndefStr, ImageWebp}, q \in {Undefined, Num(3, 2)},
     bg \in {"undefined", "#000000"}}

Functions ==
  {"shrinkImage", "normalizeDimension", "resolveTargetSize",
   "normalizeQuality", "resolveOutputType", "getCoverSourceRect"}

\* the argument lists each function is called with
Calls(fn) ==
  CASE fn = "shrinkImage" ->
         {<<[type |-> t], o>> : t \in {ImageJpeg, UpperPng}, o \in ShrinkOptions}
    [] fn = "normalizeDimension" ->
         {<<v, n>> : v \in DimValues, n \in {"width", "height"}}
    [] fn = "resolveTargetSize" ->
         {<<w, h, s[1], s[2]>> : w \in ReqValues, h \in ReqValues, s \in SrcSizes}
    [] fn = "normalizeQuality" -> {<<q>> : q \in QualityValues}
    [] fn = "resolveOutputType" ->
         {<<e, t>> : e \in FormatValues, t \in TypeValues}
    [] fn = "getCoverSourceRect" -> CoverSizes

Decoders == {"createImageBitmap", "Image.decode", "Image.onload", "none"}

Canvases == {"OffscreenCanvas", "document", "none"}

\* ------------------------------------------------------------------------
\* state
\* ------------------------------------------------------------------------

VARIABLES
  call,    \* the exported function under call and its arguments
  pc,      \* "init", then for shrinkImage "loading", "loaded", "encoding",
           \* and "done" once the call has returned, thrown or settled
  ret,     \* Ok(value) or Throw(message) once pc = "done"
  image,   \* the decoded source image handle of shrinkImage
  locals,  \* fit, outputType, quality of shrinkImage
  log      \* the host calls made so far, in order

vars == <<call, pc, ret, image, locals, log>>

Pending == [ok |-> FALSE, val |-> <<>>, message |-> <<>>]

NoImage ==
  [kind |-> "none", width |-> 0, height |-> 0, naturalWidth |-> 0,
   naturalHeight |-> 0, hasClose |-> FALSE]

NoLocals ==
  [fit |-> "", outputType |-> <<>>, quality |-> Undefined, decoder |-> ""]

Init ==
  /\ \E fn \in Functions :
       call \in {[fn |-> fn, args |-> a] : a \in Calls(fn)}
  /\ pc = "init"
  /\ ret = Pending
  /\ image = NoImage
  /\ locals = NoLocals
  /\ log = <<>>

Return(r) ==
  /\ pc' = "done"
  /\ ret' = r
  /\ UNCHANGED <<call, image, locals, log>>

CallNormalizeDimension ==
  /\ pc = "init" /\ call.fn = "normalizeDimension"
  /\ Return(normalizeDimension(call.args[1], call.args[2]))

CallResolveTargetSize ==
  /\ pc = "init" /\ call.fn = "resolveTargetSize"
  /\ Return(resolveTargetSize(call.args[1], call.args[2], call.args[3],
                              call.args[4]))

CallNormalizeQuality ==
  /\ pc = "init" /\ call.fn = "normalizeQuality"
  /\ Return(normalizeQuality(call.args[1]))

CallResolveOutputType ==
  /\ pc = "init" /\ call.fn = "resolveOutputType"
  /\ Return(Ok(resolveOutputType(call.args[1], call.args[2])))

CallGetCoverSourceRect ==
  /\ pc = "init" /\ call.fn = "getCoverSourceRect"
  /\ Return(Ok(getCoverSourceRect(call.args[1], call.args[2], call.args[3],
                                  call.args[4])))

\* the promise of shrinkImage settles with r after the host calls evs
Settle(evs, r) ==
  /\ pc' = "done"
  /\ ret' = r
  /\ log' = log \o evs
       \o <<[op |-> "settled",
             state |-> IF r.ok THEN "fulfilled" ELSE "rejected"]>>

\* shrinkImage up to its first await: option defaults, and loadImage up to
\* the host decode it starts
ShrinkStart ==
  /\ pc = "init" /\ call.fn = "shrinkImage"
  /\ LET input == call.args[1]
         options == call.args[2]
         fit == IF options.fit = "undefined" THEN "cover" ELSE options.fit
         outputType == resolveOutputType(options.format, input.type)
         quality == normalizeQuality(options.quality)
     IN  IF ~quality.ok
         THEN Settle(<<>>, quality) /\ UNCHANGED <<call, image, locals>>
         ELSE \E decoder \in Decoders :
                /\ UNCHANGED <<call, image>>
                /\ locals' = [fit |-> fit, outputType |-> outputType,
                              quality |-> quality.val, decoder |-> decoder]
                /\ IF decoder = "none"
                   THEN Settle(<<>>, Throw(<<"Image decoding is not available in this environment.">>))
                   ELSE /\ pc' = "loading"
                        /\ ret' = ret
                        /\ log' =
                             IF decoder = "createImageBitmap"
                             THEN <<[op |-> "createImageBitmap",
                                     imageOrientation |-> "from-image"]>>
                             ELSE <<[op |-> "createObjectURL"],
                                    [op |-> "new Image", decoding |-> "async"]>>

\* the host calls loadImage makes when the decode it awaited has settled
LoadFinally == 
  IF locals.decoder = "createImageBitmap" THEN <<>>
  ELSE <<[op |-> "revokeObjectURL"]>>

\* the decode fails: loadImage rejects and shrinkImage with it
LoadImageRejects ==
  /\ pc = "loading"
  /\ Settle(LoadFinally,
            Throw(IF locals.decoder = "Image.onload"
                  THEN <<"Failed to load image.">>
                  ELSE <<"decode failed">>))
  /\ UNCHANGED <<call, image, locals>>

\* the decode succeeds: loadImage resolves with the image handle
LoadImageResolves ==
  /\ pc = "loading"
  /\ \E s \in SrcSizes :
       image' =
         IF locals.decoder = "createImageBitmap"
         THEN [kind |-> "ImageBitmap", width |-> s[1], height |-> s[2],
               naturalWidth |-> 0, naturalHeight |-> 0, hasClose |-> TRUE]
         ELSE [kind |-> "HTMLImageElement", width |-> s[1],
               height |-> s[2], naturalWidth |-> s[1],
               naturalHeight |-> s[2], hasClose |-> FALSE]
  /\ pc' = "loaded"
  /\ log' = log \o LoadFinally
  /\ UNCHANGED <<call, ret, locals>>

\* a faulty contain branch that draws at the top left corner
ContainDrawUncentred(bg, srcWidth, srcHeight, targetWidth, targetHeight, destWidth, destHeight) ==
  <<[op |-> "fillRect", fillStyle |-> bg,
     args |-> <<0, 0, targetWidth, targetHeight>>],
    [op |-> "drawImage",
     args |-> <<Zero, Zero, FInt(srcWidth), FInt(srcHeight), Zero, Zero,
                FInt(destWidth), FInt(destHeight)>>]>>

\* a faulty contain branch that fills the background after drawing
ContainDrawThenFill(bg, srcWidth, srcHeight, targetWidth, targetHeight, destWidth, destHeight) ==
  <<[op |-> "drawImage",
     args |-> <<Zero, Zero, FInt(srcWidth), FInt(srcHeight),
                FInt(MathRound(FDiv(FInt(targetWidth - destWidth),
                                    FInt(2)))),
                FInt(MathRound(FDiv(FInt(targetHeight - destHeight),
                                    FInt(2)))),
                FInt(destWidth), FInt(destHeight)>>],
    [op |-> "fillRect", fillStyle |-> bg,
     args |-> <<0, 0, targetWidth, targetHeight>>]>>

\* the fill and the draw of the contain branch
ContainDraw(bg, srcWidth, srcHeight, targetWidth, targetHeight, destWidth, destHeight) ==
  <<[op |-> "fillRect", fillStyle |-> bg,
     args |-> <<0, 0, targetWidth, targetHeight>>],
    [op |-> "drawImage",
     args |-> <<Zero, Zero, FInt(srcWidth), FInt(srcHeight),
                FInt(MathRound(FDiv(FInt(targetWidth - destWidth),
                                    FInt(2)))),
                FInt(MathRound(FDiv(FInt(targetHeight - destHeight),
                                    FInt(2)))),
                FInt(destWidth), FInt(destHeight)>>]>>

\* the drawing calls of the contain branch
ContainCalls(options, outputType, srcWidth, srcHeight, targetWidth, targetHeight) ==
  Let(MathMin(FDiv(FInt(targetWidth), FInt(srcWidth)),
              FDiv(FInt(targetHeight), FInt(srcHeight))), LAMBDA scale :
    ContainDraw(IF options.background # "undefined"
                THEN options.background
                ELSE IF outputType = ImageJpeg THEN "#ffffff"
                ELSE "transparent",
                srcWidth, srcHeight, targetWidth, targetHeight,
                MathRound(FMul(FInt(srcWidth), scale)),
                MathRound(FMul(FInt(srcHeight), scale))))

\* a faulty cover branch that draws the image twice
CoverDrawTwice(rect, targetWidth, targetHeight) ==
  <<[op |-> "drawImage",
     args |-> <<rect.sx, rect.sy, rect.sWidth, rect.sHeight, Zero, Zero,
                FInt(targetWidth), FInt(targetHeight)>>],
    [op |-> "drawImage",
     args |-> <<rect.sx, rect.sy, rect.sWidth, rect.sHeight, Zero, Zero,
                FInt(targetWidth), FInt(targetHeight)>>]>>

\* the drawing call of the cover branch
CoverDraw(rect, targetWidth, targetHeight) ==
  <<[op |-> "drawImage",
     args |-> <<rect.sx, rect.sy, rect.sWidth, rect.sHeight, Zero, Zero,
                FInt(targetWidth), FInt(targetHeight)>>]>>

CoverCalls(srcWidth, srcHeight, targetWidth, targetHeight) ==
  CoverDraw(getCoverSourceRect(srcWidth, srcHeight, targetWidth,
                               targetHeight), targetWidth, targetHeight)

UpscaleMessage(targetWidth, targetHeight, srcWidth, srcHeight) ==
  <<"Target size ", ToString(targetWidth), "x", ToString(targetHeight),
    " exceeds source ", ToString(srcWidth), "x", ToString(srcHeight), ".">>

\* shrinkImage from canvas creation to the await of canvasToBlob, with the
\* finally block when the host throws before it
RenderCalls(canvas, ctxOk, drawOk, created, smoothing, drawing, encode) ==
  IF canvas = "none"
  THEN Settle(cleanupImage(image),
              Throw(<<"Canvas is not available in this environment.">>))
  ELSE IF ~ctxOk
  THEN Settle(created \o cleanupImage(image),
              Throw(<<"Canvas 2D context is not available.">>))
  ELSE IF ~drawOk
  THEN Settle(created \o smoothing \o drawing \o cleanupImage(image),
              Throw(<<"drawImage failed">>))
  ELSE /\ pc' = "encoding"
       /\ ret' = ret
       /\ log' = log \o created \o smoothing \o drawing \o encode

\* a faulty upscale guard that wants both axes to exceed the source
exceedsSourceBoth(targetWidth, targetHeight, srcWidth, srcHeight) ==
  targetWidth > srcWidth /\ targetHeight > srcHeight

\* the condition of the upscale guard
exceedsSource(targetWidth, targetHeight, srcWidth, srcHeight) ==
  targetWidth > srcWidth \/ targetHeight > srcHeight

\* shrinkImage from the upscale guard on
RenderSized(options, srcWidth, srcHeight, targetWidth, targetHeight) ==
  IF exceedsSource(targetWidth, targetHeight, srcWidth, srcHeight)
  THEN Settle(cleanupImage(image),
              Throw(UpscaleMessage(targetWidth, targetHeight, srcWidth,
                                   srcHeight)))
  ELSE \E canvas \in Canvases, ctxOk \in BOOLEAN, drawOk \in BOOLEAN :
         RenderCalls(canvas, ctxOk, drawOk,
                     <<[op |-> "createCanvas", kind |-> canvas,
                        width |-> targetWidth, height |-> targetHeight]>>,
                     <<[op |-> "imageSmoothing", enabled |-> TRUE,
                        quality |-> "high"]>>,
                     IF locals.fit = "contain"
                     THEN ContainCalls(options, locals.outputType, srcWidth,
                                       srcHeight, targetWidth, targetHeight)
                     ELSE CoverCalls(srcWidth, srcHeight, targetWidth,
                                     targetHeight),
                     <<[op |-> IF canvas = "OffscreenCanvas"
                               THEN "convertToBlob" ELSE "toBlob",
                        type |-> locals.outputType,
                        quality |-> locals.quality]>>)

\* shrinkImage from the resolved target size on
RenderTarget(options, srcWidth, srcHeight, target) ==
  IF ~target.ok THEN Settle(cleanupImage(image), target)
  ELSE RenderSized(options, srcWidth, srcHeight, target.val.width,
                   target.val.height)

\* shrinkImage from the resumption after loadImage to the await of
\* canvasToBlob, or to the finally block when something throws before it
ShrinkRender ==
  /\ pc = "loaded"
  /\ UNCHANGED <<call, image, locals>>
  /\ RenderTarget(call.args[2], getImageSize(image).width,
                  getImageSize(image).height,
                  resolveTargetSize(call.args[2].width, call.args[2].height,
                                    getImageSize(image).width,
                                    getImageSize(image).height))

\* the encode awaited by shrinkImage settles; the finally block runs
ShrinkEncoded ==
  /\ pc = "encoding"
  /\ UNCHANGED <<call, image, locals>>
  /\ \E blob \in BOOLEAN :
       Settle(cleanupImage(image),
              IF blob THEN Ok([type |-> locals.outputType])
              ELSE IF log[Len(log)].op = "toBlob"
                   THEN Throw(<<"Failed to create image blob.">>)
                   ELSE Throw(<<"convertToBlob failed">>))

Next ==
  \/ CallNormalizeDimension
  \/ CallResolveTargetSize
  \/ CallNormalizeQuality
  \/ CallResolveOutputType
  \/ CallGetCoverSourceRect
  \/ ShrinkStart
  \/ LoadImageRejects
  \/ LoadImageResolves
  \/ ShrinkRender
  \/ ShrinkEncoded

Spec == Init /\ [][Next]_vars

\* ------------------------------------------------------------------------
\* properties
\* ------------------------------------------------------------------------

\* the exported function fn has returned or thrown
Returned(fn) == pc = "done" /\ call.fn = fn

\* a shrinkImage call whose decode has succeeded
Decoded == call.fn = "shrinkImage" /\ image # NoImage

\* a shrinkImage call past the synchronous stretch that follows the decode
Rendered == Decoded /\ pc \in {"encoding", "done"}

\* the positions of the host calls named op in the log
LogOps(op) == {i \in 1..Len(log) : log[i].op = op}

\* the target size shrinkImage resolves for the decoded image
TargetOf ==
  resolveTargetSize(call.args[2].width, call.args[2].height,
                    getImageSize(image).width, getImageSize(image).height)

\* a requested dimension that normalizeDimension accepts
Valid(v) == IsFinite(v) /\ FGt(v, Zero) /\ MathRound(v) >= 1

\* round-half-up of n / d for integers n >= 0, d > 0
RoundDiv(n, d) == (2 * n + d) \div (2 * d)

DimensionError(name) == Throw(<<name, " must be a positive number.">>)

MissingDimension == Throw(<<"width or height must be provided.">>)

\* the call has thrown the error of the upscale guard
UpscaleRejected ==
  pc = "done" /\ ~ret.ok /\ Len(ret.message) = 9
    /\ ret.message[1] = "Target size "

\* C1: when the decode succeeds and the target size resolves, a target that
\* exceeds the source in width or in height makes shrinkImage reject with a
\* message giving target and source as WIDTHxHEIGHT, and no surface is
\* created; the guard comes after the resolution (a resolution error is the
\* one reported) and before createCanvas; a target within the source is not
\* rejected by the guard.
C1_UpscaleGuard ==
  Rendered =>
    LET src == getImageSize(image)
        target == TargetOf
    IN  IF ~target.ok
        THEN pc = "done" /\ ret = target /\ LogOps("createCanvas") = {}
        ELSE IF target.val.width > src.width
                  \/ target.val.height > src.height
        THEN /\ pc = "done" /\ ~ret.ok
             /\ ret.message =
                  <<"Target size ", ToString(target.val.width), "x",
                    ToString(target.val.height), " exceeds source ",
                    ToString(src.width), "x", ToString(src.height), ".">>
             /\ LogOps("createCanvas") = {}
        ELSE ~UpscaleRejected

\* a 3x1 target of a 2x2 source: only the width exceeds
C1_Witness ==
  /\ Rendered /\ pc = "done" /\ ~ret.ok
  /\ ret.message =
       <<"Target size ", "3", "x", "1", " exceeds source ", "2", "x", "2",
         ".">>
  /\ LogOps("createCanvas") = {}

\* C2: once the decode has succeeded, close is called on the image exactly
\* once, and before the call settles, however the call ends (size
\* resolution, upscale guard, canvas, context, draw, encode, success); an
\* image without close is left alone.
C2_CloseOnce ==
  Decoded =>
    /\ pc # "done" => LogOps("close") = {}
    /\ pc = "done" =>
         /\ Cardinality(LogOps("close")) = IF image.hasClose THEN 1 ELSE 0
         /\ LogOps("settled") = {Len(log)}
         /\ \A i \in LogOps("close") : i = Len(log) - 1

\* the draw throws on an ImageBitmap: closed once, then rejected
C2_Witness ==
  /\ Decoded /\ pc = "done" /\ image.hasClose
  /\ ret = Throw(<<"drawImage failed">>)
  /\ Cardinality(LogOps("close")) = 1
  /\ log[Len(log) - 1].op = "close"

\* C3: with width and height both given and valid, resolveTargetSize returns
\* {round(width), round(height)} whatever the source size is.
C3_BothGiven ==
  (/\ Returned("resolveTargetSize")
   /\ Valid(call.args[1]) /\ Valid(call.args[2])) =>
    /\ ret = Ok([width |-> MathRound(call.args[1]),
                 height |-> MathRound(call.args[2])])
    /\ (call.args[1] = Num(5, 2) /\ call.args[2] = Num(507, 10)) =>
         ret.val = [width |-> 3, height |-> 51]
    /\ (call.args[1] = Num(1002, 10) /\ call.args[2] = Num(1, 2)) =>
         ret.val = [width |-> 100, height |-> 1]

\* 2.5 x 50.7 asked of a 1x3 source
C3_Witness ==
  /\ Returned("resolveTargetSize")
  /\ call.args = <<Num(5, 2), Num(507, 10), 1, 3>>
  /\ ret = Ok([width |-> 3, height |-> 51])

\* C4: with exactly one of width and height given, resolveTargetSize returns
\* the given one rounded and the other as
\* max(1, round(round(width) * srcHeight / srcWidth)), respectively
\* max(1, round(round(height) * srcWidth / srcHeight)).
C4_DerivedFromRatio ==
  Returned("resolveTargetSize") =>
    /\ (Valid(call.args[1]) /\ call.args[2] = Undefined) =>
         ret = Ok([width |-> MathRound(call.args[1]),
                   height |-> MathMax(1,
                     RoundDiv(MathRound(call.args[1]) * call.args[4],
                              call.args[3]))])
    /\ (call.args[1] = Undefined /\ Valid(call.args[2])) =>
         ret = Ok([width |-> MathMax(1,
                     RoundDiv(MathRound(call.args[2]) * call.args[3],
                              call.args[4])),
                   height |-> MathRound(call.args[2])])

Supported == {ImageJpeg, ImagePng, ImageWebp}

\* C5: resolveOutputType returns the explicit format when that is one of the
\* three supported types, else the lower-cased input type when that is one,
\* else image/jpeg; it always returns, and always a supported type.
C5_OutputType ==
  Returned("resolveOutputType") =>
    /\ ret.ok /\ ret.val \in Supported
    /\ ret.val =
         IF call.args[1] \in Supported THEN call.args[1]
         ELSE IF toLowerCase(call.args[2]) \in Supported
              THEN toLowerCase(call.args[2])
         ELSE ImageJpeg
    /\ (call.args[1] \notin Supported /\ call.args[2] = UpperPng) =>
         ret.val = ImagePng
    /\ (call.args[1] \notin Supported /\ call.args[2] = MixedJpeg) =>
         ret.val = ImageJpeg
    /\ (call.args[1] \notin Supported /\ call.args[2] = ImageGif) =>
         ret.val = ImageJpeg

\* image/webp asked of an IMAGE/PNG input
C5_Witness ==
  /\ Returned("resolveOutputType")
  /\ call.args = <<ImageWebp, UpperPng>>
  /\ ret = Ok(ImageWebp)

\* the crop rectangle as C6 gives it; sw/sh > tw/th is decided exactly
CoverRect(sw, sh, tw, th) ==
  IF sw * th > tw * sh
  THEN [sx |-> FDiv(FSub(FInt(sw), FMul(FInt(sh),
                                        FDiv(FInt(tw), FInt(th)))),
                    FInt(2)),
        sy |-> Zero,
        sWidth |-> FMul(FInt(sh), FDiv(FInt(tw), FInt(th))),
        sHeight |-> FInt(sh)]
  ELSE [sx |-> Zero,
        sy |-> FDiv(FSub(FInt(sh), FDiv(FInt(sw),
                                        FDiv(FInt(tw), FInt(th)))),
                    FInt(2)),
        sWidth |-> FInt(sw),
        sHeight |-> FDiv(FInt(sw), FDiv(FInt(tw), FInt(th)))]

\* x and y are the same Number to within 2^-50 of y, for finite y > 0
Near(x, y) ==
  LET d == FSub(x, y)
  IN  FLt(IF d.s < 0 THEN FNeg(d) ELSE d,
          FMul(y, Dbl(1, MinHi, 0, 0 - 102)))

\* C6: getCoverSourceRect returns the centred crop of the target's ratio:
\* for sw/sh > tw/th, sHeight = sh, sy = 0, sWidth = sh * (tw/th),
\* sx = (sw - sWidth)/2, and otherwise sWidth = sw, sx = 0,
\* sHeight = sw / (tw/th), sy = (sh - sHeight)/2; the cover branch of
\* shrinkImage draws that rectangle onto (0, 0, targetWidth, targetHeight).
C6_CoverRect ==
  /\ Returned("getCoverSourceRect") =>
       /\ ret = Ok(CoverRect(call.args[1], call.args[2], call.args[3],
                             call.args[4]))
       /\ Near(FDiv(ret.val.sWidth, ret.val.sHeight),
               FDiv(FInt(call.args[3]), FInt(call.args[4])))
       /\ Near(FAdd(FAdd(ret.val.sx, ret.val.sx), ret.val.sWidth),
               FInt(call.args[1]))
       /\ Near(FAdd(FAdd(ret.val.sy, ret.val.sy), ret.val.sHeight),
               FInt(call.args[2]))
       /\ call.args = <<200, 100, 100, 100>> =>
            ret.val = [sx |-> FInt(50), sy |-> Zero, sWidth |-> FInt(100),
                       sHeight |-> FInt(100)]
       /\ call.args = <<100, 200, 200, 100>> =>
            ret.val = [sx |-> Zero, sy |-> FInt(75), sWidth |-> FInt(100),
                       sHeight |-> FInt(50)]
  /\ (Decoded /\ locals.fit = "cover") =>
       \A i \in LogOps("drawImage") :
         LET src == getImageSize(image)
             target == TargetOf.val
             rect == CoverRect(src.width, src.height, target.width,
                               target.height)
         IN  log[i].args =
               <<rect.sx, rect.sy, rect.sWidth, rect.sHeight, Zero, Zero,
                 FInt(target.width), FInt(target.height)>>

\* an 8x15 cover of a 15x22 source has been drawn
C6_Witness ==
  /\ Decoded /\ locals.fit = "cover"
  /\ getImageSize(image) = [width |-> 15, height |-> 22]
  /\ call.args[2].width = FInt(8) /\ call.args[2].height = FInt(15)
  /\ \E i \in LogOps("drawImage") :
       /\ log[i].args[2] = Zero
       /\ log[i].args[4] = FInt(22)
       /\ log[i].args[7] = FInt(8)

\* the arguments of the contain draw as C7 gives them
ContainArgs(sw, sh, tw, th) ==
  LET scale == MathMin(FDiv(FInt(tw), FInt(sw)), FDiv(FInt(th), FInt(sh)))
      destWidth == MathRound(FMul(FInt(sw), scale))
      destHeight == MathRound(FMul(FInt(sh), scale))
      dx == MathRound(FDiv(FInt(tw - destWidth), FInt(2)))
      dy == MathRound(FDiv(FInt(th - destHeight), FInt(2)))
  IN  <<Zero, Zero, FInt(sw), FInt(sh), FInt(dx), FInt(dy),
        FInt(destWidth), FInt(destHeight)>>

\* C7: the contain branch draws the whole source (0, 0, srcWidth, srcHeight)
\* into destWidth = round(srcWidth * scale), destHeight =
\* round(srcHeight * scale) at dx = round((targetWidth - destWidth)/2),
\* dy = round((targetHeight - destHeight)/2), for scale =
\* min(targetWidth/srcWidth, targetHeight/srcHeight); a 200x100 source into
\* 100x100 is drawn 100x50 at (0, 25).
C7_ContainRect ==
  (Decoded /\ locals.fit = "contain") =>
    \A i \in LogOps("drawImage") :
      LET src == getImageSize(image)
          target == TargetOf.val
      IN  /\ log[i].args = ContainArgs(src.width, src.height, target.width,
                                       target.height)
          /\ (src = [width |-> 200, height |-> 100]
              /\ target = [width |-> 100, height |-> 100]) =>
               log[i].args = <<Zero, Zero, FInt(200), FInt(100), Zero,
                               FInt(25), FInt(100), FInt(50)>>

\* the 200x100 source has been drawn into the 100x100 target
C7_Witness ==
  /\ Decoded /\ locals.fit = "contain"
  /\ getImageSize(image) = [width |-> 200, height |-> 100]
  /\ call.args[2].width = FInt(100) /\ call.args[2].height = FInt(100)
  /\ \E i \in LogOps("drawImage") : log[i].args[6] = FInt(25)

\* C8: normalizeDimension returns the value rounded half up when the value
\* is finite, positive and rounds to at least 1, and throws the dimension
\* error when it is not finite, is <= 0 or rounds to 0; it returns nothing
\* below 1.
C8_NormalizeDimension ==
  Returned("normalizeDimension") =>
    /\ ret = IF Valid(call.args[1]) THEN Ok(MathRound(call.args[1]))
             ELSE DimensionError(call.args[2])
    /\ ret.ok => ret.val >= 1
    /\ \A n \in (0 - 4)..(4 * MaxDim) :
         call.args[1] = Num(n, 4) =>
           ret = IF n >= 2 THEN Ok((n + 2) \div 4)
                 ELSE DimensionError(call.args[2])
    /\ call.args[1] = Num(104, 10) => ret = Ok(10)
    /\ call.args[1] = Num(106, 10) => ret = Ok(11)
    /\ call.args[1] \in {NaN, Inf(1), Inf(0 - 1), Num(49, 100)} => ~ret.ok

\* 0.25 is positive and rounds to 0: rejected
C8_Witness ==
  /\ Returned("normalizeDimension")
  /\ call.args = <<Num(1, 4), "height">>
  /\ ret = DimensionError("height")

\* C9: with width and height both absent resolveTargetSize throws 'width or
\* height must be provided.' for every source size, and a shrinkImage call
\* without either rejects with it and creates no surface.
C9_MissingDimension ==
  /\ (/\ Returned("resolveTargetSize")
      /\ call.args[1] = Undefined /\ call.args[2] = Undefined) =>
       ret = MissingDimension
  /\ (/\ Rendered
      /\ call.args[2].width = Undefined
      /\ call.args[2].height = Undefined) =>
       /\ pc = "done" /\ ret = MissingDimension
       /\ LogOps("createCanvas") = {}

\* a decoded image, no dimension asked: rejected, nothing created
C9_Witness ==
  /\ Rendered /\ pc = "done"
  /\ call.args[2].width = Undefined /\ call.args[2].height = Undefined
  /\ ret = MissingDimension
  /\ LogOps("createCanvas") = {}

QualityError == Throw(<<"quality must be between 0 and 1.">>)

\* C10: normalizeQuality returns 0.92 for an absent quality, returns a
\* quality in [0, 1] unchanged, the endpoints included, and throws for a
\* quality outside [0, 1].
C10_NormalizeQuality ==
  Returned("normalizeQuality") =>
    /\ call.args[1] = Undefined =>
         ret = Ok(Dbl(1, 61740154, 118111601, 0 - 53))
    /\ \A n \in (0 - 2)..10 :
         call.args[1] = Num(n, 8) =>
           ret = IF n >= 0 /\ n <= 8 THEN Ok(call.args[1])
                 ELSE QualityError
    /\ call.args[1] \in {Zero, FInt(1), Num(92, 100), Num(1, 10)} =>
         ret = Ok(call.args[1])
    /\ call.args[1] \in {NaN, Inf(1)} => ret = QualityError
    /\ (IsFinite(call.args[1])
        /\ (FLt(call.args[1], Zero) \/ FGt(call.args[1], FInt(1)))) =>
         ret = QualityError

\* a quality of exactly 1 is returned as it is
C10_Witness ==
  /\ Returned("normalizeQuality")
  /\ call.args[1] = FInt(1)
  /\ ret = Ok(FInt(1))

\* the background the contain branch is to fill with
BackgroundOf ==
  IF call.args[2].background # "undefined" THEN call.args[2].background
  ELSE IF resolveOutputType(call.args[2].format, call.args[1].type)
            = ImageJpeg
       THEN "#ffffff"
  ELSE "transparent"

\* C11: in contain mode the draw is preceded by one fill of
\* (0, 0, targetWidth, targetHeight) with the background option if given,
\* else #ffffff for an image/jpeg output, else transparent; no fill follows
\* the draw; in cover mode nothing is filled.
C11_BackgroundFill ==
  /\ (Decoded /\ locals.fit = "contain") =>
       /\ Cardinality(LogOps("fillRect")) <= 1
       /\ \A i \in LogOps("drawImage") :
            /\ LogOps("fillRect") = {i - 1}
            /\ log[i - 1].args =
                 <<0, 0, TargetOf.val.width, TargetOf.val.height>>
            /\ log[i - 1].fillStyle = BackgroundOf
  /\ (Decoded /\ locals.fit = "cover") => LogOps("fillRect") = {}

\* a PNG input, no format and no background: filled transparent, then drawn
C11_Witness ==
  /\ Decoded /\ locals.fit = "contain"
  /\ locals.outputType = ImagePng
  /\ call.args[2].background = "undefined"
  /\ \E i \in LogOps("drawImage") :
       /\ i > 1
       /\ log[i - 1].op = "fillRect"
       /\ log[i - 1].fillStyle = "transparent"

\* a shrinkImage call that has come to createCanvas: the decode succeeded,
\* the target size resolved and the upscale guard let it through
ReachedRender ==
  /\ Rendered
  /\ TargetOf.ok
  /\ TargetOf.val.width <= getImageSize(image).width
  /\ TargetOf.val.height <= getImageSize(image).height

\* the positions of the encode calls in the log
Encodes == LogOps("convertToBlob") \cup LogOps("toBlob")

\* every encode call follows a draw and carries the resolved output type
\* and the normalized quality
EncodesAsResolved ==
  \A j \in Encodes :
    /\ \E i \in LogOps("drawImage") : i < j
    /\ log[j].type =
         resolveOutputType(call.args[2].format, call.args[1].type)
    /\ log[j].quality = normalizeQuality(call.args[2].quality).val

\* C12 as stated: every call that reaches the render step creates one
\* surface of the target size and issues exactly one drawImage, before the
\* encode, which gets the resolved type and quality; a call that fails
\* earlier draws and encodes nothing.
C12_OneDrawAlways ==
  call.fn = "shrinkImage" =>
    IF ReachedRender
    THEN /\ Cardinality(LogOps("createCanvas")) = 1
         /\ \A c \in LogOps("createCanvas") :
              /\ log[c].width = TargetOf.val.width
              /\ log[c].height = TargetOf.val.height
         /\ Cardinality(LogOps("drawImage")) = 1
         /\ EncodesAsResolved
    ELSE LogOps("drawImage") = {} /\ Encodes = {}

\* C12, amended: a call that reaches the render step and obtains a 2D
\* context on the one surface it created, sized targetWidth x targetHeight,
\* issues exactly one drawImage; without a surface or without a context it
\* issues none.  An encode is called at most once, only after the draw, with
\* the resolved type and quality, and exactly once when the draw returns.
\* A call that fails before the render step creates, draws and encodes
\* nothing.
C12_OneDraw ==
  call.fn = "shrinkImage" =>
    IF ReachedRender
    THEN /\ Cardinality(LogOps("createCanvas")) <= 1
         /\ \A c \in LogOps("createCanvas") :
              /\ log[c].width = TargetOf.val.width
              /\ log[c].height = TargetOf.val.height
         /\ Cardinality(LogOps("drawImage")) =
              IF LogOps("imageSmoothing") = {} THEN 0 ELSE 1
         /\ \A i \in LogOps("drawImage") :
              \E c \in LogOps("createCanvas") : c < i
         /\ Cardinality(Encodes) <= 1
         /\ EncodesAsResolved
         /\ (pc = "encoding" \/ ret.ok
             \/ ret.message \in {<<"Failed to create image blob.">>,
                                 <<"convertToBlob failed">>}) =>
              Cardinality(Encodes) = 1
    ELSE /\ LogOps("createCanvas") = {}
         /\ LogOps("drawImage") = {}
         /\ Encodes = {}

\* a cover call awaiting its encode: one surface, one draw, then the encode
C12_Witness ==
  /\ ReachedRender /\ pc = "encoding" /\ locals.fit = "cover"
  /\ Cardinality(LogOps("createCanvas")) = 1
  /\ Cardinality(LogOps("drawImage")) = 1
  /\ log[Len(log)].op = "convertToBlob"
  /\ log[Len(log) - 1].op = "drawImage"

\* x <= y on Numbers
FLeq(x, y) == ~FGt(x, y)

\* C13: in contain mode the destination rectangle passed to drawImage is
\* non-empty and inside the target canvas: destWidth >= 1, destHeight >= 1,
\* dx >= 0, dy >= 0, dx + destWidth <= targetWidth and
\* dy + destHeight <= targetHeight.
C13_DestinationInside ==
  (Decoded /\ locals.fit = "contain") =>
    \A i \in LogOps("drawImage") :
      /\ FLeq(FInt(1), log[i].args[7])
      /\ FLeq(FInt(1), log[i].args[8])
      /\ FLeq(Zero, log[i].args[5])
      /\ FLeq(Zero, log[i].args[6])
      /\ FLeq(FAdd(log[i].args[5], log[i].args[7]), FInt(TargetOf.val.width))
      /\ FLeq(FAdd(log[i].args[6], log[i].args[8]), FInt(TargetOf.val.height))

\* the rectangle (sx, sy, sWidth, sHeight) is non-empty and inside a source
\* of sw x sh
InsideSource(sx, sy, sWidth, sHeight, sw, sh) ==
  /\ FLeq(Zero, sx) /\ FLeq(Zero, sy)
  /\ FLt(Zero, sWidth) /\ FLt(Zero, sHeight)
  /\ FLeq(FAdd(sx, sWidth), FInt(sw))
  /\ FLeq(FAdd(sy, sHeight), FInt(sh))

\* C14: the crop rectangle returned by getCoverSourceRect is non-empty and
\* lies inside the source image: sx >= 0, sy >= 0, sWidth > 0, sHeight > 0,
\* sx + sWidth <= sourceWidth and sy + sHeight <= sourceHeight, also for
\* every cover draw of shrinkImage.
C14_CropInside ==
  /\ Returned("getCoverSourceRect") =>
       InsideSource(ret.val.sx, ret.val.sy, ret.val.sWidth, ret.val.sHeight,
                    call.args[1], call.args[2])
  /\ (Decoded /\ locals.fit = "cover") =>
       \A i \in LogOps("drawImage") :
         InsideSource(log[i].args[1], log[i].args[2], log[i].args[3],
                      log[i].args[4], getImageSize(image).width,
                      getImageSize(image).height)

\* the derived side of a single-dimension request stays within the source
\* when the given side does
DerivedWithin(width, height, target, srcWidth, srcHeight) ==
  /\ (height = Undefined /\ target.width <= srcWidth) =>
       target.height <= srcHeight
  /\ (width = Undefined /\ target.height <= srcHeight) =>
       target.width <= srcWidth

\* C15: when only one dimension is supplied and its rounded value does not
\* exceed the corresponding source dimension, the derived other dimension
\* does not exceed the other source dimension; so for single-dimension
\* requests the upscale guard rejects exactly when the supplied dimension,
\* after rounding, exceeds the source's.
C15_DerivedWithinSource ==
  /\ (Returned("resolveTargetSize") /\ ret.ok) =>
       DerivedWithin(call.args[1], call.args[2], ret.val,
                     call.args[3], call.args[4])
  /\ (Rendered /\ TargetOf.ok
        /\ (call.args[2].width = Undefined
              \/ call.args[2].height = Undefined)) =>
       /\ DerivedWithin(call.args[2].width, call.args[2].height, TargetOf.val,
                        getImageSize(image).width, getImageSize(image).height)
       /\ UpscaleRejected <=>
            IF call.args[2].height = Undefined
            THEN MathRound(call.args[2].width) > getImageSize(image).width
            ELSE MathRound(call.args[2].height) > getImageSize(image).height

\* width 11 alone on an 11x15 source: the derived height reaches the source
\* height, 15, and does not pass it
C15_Witness ==
  /\ Returned("resolveTargetSize")
  /\ call.args = <<FInt(11), Undefined, 11, 15>>
  /\ ret = Ok([width |-> 11, height |-> 15])
====
